---- MODULE Spec2Model ----
(***************************************************************************)
(* Legal move generation and move application of the sealion chess engine. *)
(*                                                                         *)
(* A BitBoard (u64) is modelled as the set of its set bits, a subset of    *)
(* 0..63; a shift moves every bit and drops the bits that leave the word.  *)
(* Option<T> is modelled as a sequence: None is << >>, Some(x) is <<x>>.   *)
(* The state machine is the perft driver: generate the move list of the    *)
(* current position, apply one of its moves, repeat.                       *)
(***************************************************************************)
EXTENDS Integers, Sequences, FiniteSets, TLC

VARIABLES position, move_list, prev, last, ply, free, script

vars == <<position, move_list, prev, last, ply, free, script>>

-----------------------------------------------------------------------------
(* Squares, bitboards, colors, piece kinds                                 *)

Squares == 0..63

Rank(sq) == sq \div 8

File(sq) == sq % 8

At(r, f) == r * 8 + f

None == << >>

Some(x) == <<x>>

Unwrap(o) == o[1]

White == "White"

Black == "Black"

Colors == {White, Black}

Opposite(c) == IF c = White THEN Black ELSE White

Pawn == "Pawn"

Knight == "Knight"

Bishop == "Bishop"

Rook == "Rook"

Queen == "Queen"

King == "King"

PieceKinds == <<Pawn, Knight, Bishop, Rook, Queen, King>>

KindSet == {PieceKinds[i] : i \in 1..6}

PROMOTABLE == <<Knight, Bishop, Rook, Queen>>

Shl(bb, n) == {s + n : s \in bb} \cap Squares

Shr(bb, n) == {s - n : s \in bb} \cap Squares

FromSquare(sq) == IF sq \in Squares THEN {sq} ELSE {}

MinOf(S) == CHOOSE x \in S : \A y \in S : x <= y

Min2(a, b) == IF a <= b THEN a ELSE b

AbsDiff(a, b) == IF a >= b THEN a - b ELSE b - a

\* BitBoard::set_iter: the set squares, lowest index first
RECURSIVE SetIter(_)
SetIter(bb) ==
    IF bb = {} THEN << >>
    ELSE LET m == MinOf(bb) IN <<m>> \o SetIter(bb \ {m})

A_FILE == {s \in Squares : File(s) = 0}

H_FILE == {s \in Squares : File(s) = 7}

WHITE_OO == "WHITE_OO"

WHITE_OOO == "WHITE_OOO"

BLACK_OO == "BLACK_OO"

BLACK_OOO == "BLACK_OOO"

AllRights == {WHITE_OO, WHITE_OOO, BLACK_OO, BLACK_OOO}

Regular(k) == <<"Regular", k>>

EnPassant == <<"EnPassant">>

-----------------------------------------------------------------------------
(* Board lookups                                                           *)

\* Board::get_color: the first color (White, then Black) whose mask has sq
get_color(board, sq) ==
    IF sq \in board.color_bb[White] THEN Some(White)
    ELSE IF sq \in board.color_bb[Black] THEN Some(Black)
    ELSE None

\* Board::get_piece_kind: the first kind, in declaration order, with sq set
get_piece_kind(board, sq) ==
    LET hits == {i \in 1..6 : sq \in board.piece_bb[PieceKinds[i]]}
    IN  IF hits = {} THEN None ELSE Some(PieceKinds[MinOf(hits)])

\* Board::get: color zipped with kind
get(board, sq) ==
    LET c == get_color(board, sq)
        k == get_piece_kind(board, sq)
    IN  IF c = None \/ k = None THEN None
        ELSE Some([color |-> Unwrap(c), kind |-> Unwrap(k)])

get_full_bb(board) == board.color_bb[White] \cup board.color_bb[Black]

get_piece_bb(board, color, kind) == board.piece_bb[kind] \cap board.color_bb[color]

starting_position ==
    [color_bb |-> [c \in Colors |-> IF c = White THEN 0..15 ELSE 48..63],
     piece_bb |-> [k \in KindSet |->
        CASE k = Pawn   -> (8..15) \cup (48..55)
          [] k = Knight -> {1, 6, 57, 62}
          [] k = Bishop -> {2, 5, 58, 61}
          [] k = Rook   -> {0, 7, 56, 63}
          [] k = Queen  -> {3, 59}
          [] k = King   -> {4, 60}]]

starting ==
    [board |-> starting_position,
     active_color |-> White,
     castling |-> AllRights,
     ep_target |-> None,
     halfmove_clock |-> 0,
     fullmove_counter |-> 1]

-----------------------------------------------------------------------------
(* Attack tables                                                           *)

KNIGHT_ATTACKS ==
    [i \in Squares |->
        LET start == {i}
            f == File(i)
            r == Rank(i)
        IN  (IF f >= 2 /\ r < 7 THEN Shl(start, 6) ELSE {})
            \cup (IF f >= 1 /\ r < 6 THEN Shl(start, 15) ELSE {})
            \cup (IF f <= 5 /\ r < 7 THEN Shl(start, 10) ELSE {})
            \cup (IF f <= 6 /\ r < 6 THEN Shl(start, 17) ELSE {})
            \cup (IF f >= 2 /\ r >= 1 THEN Shr(start, 10) ELSE {})
            \cup (IF f >= 1 /\ r >= 2 THEN Shr(start, 17) ELSE {})
            \cup (IF f <= 5 /\ r >= 1 THEN Shr(start, 6) ELSE {})
            \cup (IF f <= 6 /\ r >= 2 THEN Shr(start, 15) ELSE {})]

knight_attacks(sq) == KNIGHT_ATTACKS[sq]

KING_ATTACKS ==
    [i \in Squares |->
        LET start == {i}
            east == IF File(i) > 0
                    THEN Shr(start, 9) \cup Shr(start, 1) \cup Shl(start, 7)
                    ELSE {}
            west == IF File(i) < 7
                    THEN Shr(start, 7) \cup Shl(start, 1) \cup Shl(start, 9)
                    ELSE {}
            m0 == east \cup west
            maskN == Shl(start, 7) \cup Shl(start, 8) \cup Shl(start, 9)
            m1 == IF Rank(i) = 7 THEN m0 \ maskN ELSE m0 \cup maskN
            maskS == Shr(maskN, 16)
        IN  IF Rank(i) = 0 THEN m1 \ maskS ELSE m1 \cup maskS]

king_attacks(sq) == KING_ATTACKS[sq]

pawn_attacks(sq, color) ==
    LET start == {sq}
    IN  IF color = White
        THEN IF Rank(sq) < 7
             THEN (IF File(sq) > 0 THEN Shl(start, 7) ELSE {})
                  \cup (IF File(sq) < 7 THEN Shl(start, 9) ELSE {})
             ELSE {}
        ELSE IF Rank(sq) > 0
             THEN (IF File(sq) > 0 THEN Shr(start, 9) ELSE {})
                  \cup (IF File(sq) < 7 THEN Shr(start, 7) ELSE {})
             ELSE {}

-----------------------------------------------------------------------------
(* Sliding rays                                                            *)

\* the inner loop of sliding_attacks: shift, record, stop after a blocker
RECURSIVE Walk(_, _, _, _)
Walk(cur, shift, remaining, blockers) ==
    IF remaining = 0 THEN {}
    ELSE LET nxt == cur + shift
         IN  IF nxt \notin Squares THEN {}
             ELSE IF nxt \in blockers THEN {nxt}
             ELSE {nxt} \cup Walk(nxt, shift, remaining - 1, blockers)

\* a variant that walks seven steps in every direction, whatever the distance
\* to the edge
sliding_attacks_unbounded(DIR, sq, blockers) ==
    LET shifts == IF DIR = 0 THEN <<9, 7, -7, -9>> ELSE <<8, -8, 1, -1>>
    IN  [d \in 1..4 |-> Walk(sq, shifts[d], 7, blockers)]

\* DIR = 0: NE, NW, SE, SW; DIR = 1: N, S, E, W
sliding_attacks(DIR, sq, blockers) ==
    LET r == Rank(sq)
        f == File(sq)
        max == IF DIR = 0
               THEN <<Min2(7 - r, 7 - f), Min2(7 - r, f), Min2(r, 7 - f), Min2(r, f)>>
               ELSE <<7 - r, r, 7 - f, f>>
        shifts == IF DIR = 0 THEN <<9, 7, -7, -9>> ELSE <<8, -8, 1, -1>>
    IN  [d \in 1..4 |-> Walk(sq, shifts[d], max[d], blockers)]

merge_bb(boards) == UNION {boards[d] : d \in DOMAIN boards}

-----------------------------------------------------------------------------
(* Position-state derivation (engine/src/state.rs)                         *)

RECURSIVE ConcatAll(_)
ConcatAll(ss) == IF ss = << >> THEN << >> ELSE Head(ss) \o ConcatAll(Tail(ss))

NoAttack == [bb |-> {}, melee |-> << >>, sliders |-> << >>, pinners |-> << >>]

\* the closure handle_king_atk: the first ray touching our king decides
handle_king_atk(P, king_bb, sq, pinner) ==
    LET unfriendly == P.board.color_bb[Opposite(P.active_color)]
        touching == {d \in 1..4 : pinner[d] \cap king_bb # {}}
    IN  IF touching = {} THEN [sliders |-> << >>, pinners |-> << >>]
        ELSE LET ray == pinner[MinOf(touching)]
                 n_intersect == Cardinality(ray \cap unfriendly)
             IN  IF n_intersect = 1
                 THEN [sliders |-> <<FromSquare(sq) \cup ray>>, pinners |-> << >>]
                 ELSE IF n_intersect = 2
                 THEN [sliders |-> << >>, pinners |-> <<FromSquare(sq) \cup ray>>]
                 ELSE [sliders |-> << >>, pinners |-> << >>]

\* the Bishop (DIR = 0) and Rook (DIR = 1) arms of generate_attacks
slider_attacks(P, king_bb, sq, DIR) ==
    LET friendly == P.board.color_bb[P.active_color]
        minions == friendly \ king_bb
        unfriendly == P.board.color_bb[Opposite(P.active_color)]
        king_atk == sliding_attacks(DIR, sq, unfriendly \cup king_bb)
        h == handle_king_atk(P, king_bb, sq, king_atk)
        attack == sliding_attacks(DIR, sq, unfriendly \cup minions)
    IN  [bb |-> merge_bb(attack), melee |-> << >>,
         sliders |-> h.sliders, pinners |-> h.pinners]

generate_attacks(P, king_bb, sq, kind) ==
    CASE kind = Bishop -> slider_attacks(P, king_bb, sq, 0)
      [] kind = Rook -> slider_attacks(P, king_bb, sq, 1)
      [] kind = Queen ->
            LET b == slider_attacks(P, king_bb, sq, 0)
                r == slider_attacks(P, king_bb, sq, 1)
            IN  [bb |-> b.bb \cup r.bb, melee |-> << >>,
                 sliders |-> b.sliders \o r.sliders,
                 pinners |-> b.pinners \o r.pinners]
      [] kind = Knight ->
            LET attack == knight_attacks(sq)
            IN  [NoAttack EXCEPT !.bb = attack,
                    !.melee = IF attack \cap king_bb # {} THEN <<sq>> ELSE << >>]
      [] kind = Pawn ->
            LET attack == pawn_attacks(sq, Opposite(P.active_color))
            IN  [NoAttack EXCEPT !.bb = attack,
                    !.melee = IF attack \cap king_bb # {} THEN <<sq>> ELSE << >>]
      [] kind = King -> [NoAttack EXCEPT !.bb = king_attacks(sq)]

\* PositionState::generate (the evaluation score is not modelled)
PositionState(P) ==
    LET king_bb == get_piece_bb(P.board, P.active_color, King)
        pieces == [sq \in Squares |-> get(P.board, sq)]
        opp == {sq \in get_full_bb(P.board) :
                    pieces[sq] # None /\ Unwrap(pieces[sq]).color # P.active_color}
        contrib == [sq \in opp |->
                        generate_attacks(P, king_bb, sq, Unwrap(pieces[sq]).kind)]
        order == SetIter(opp)
    IN  [position |-> P,
         board_ext |-> [pieces |-> pieces, king_bb |-> king_bb],
         attacks |->
            [bb |-> UNION {contrib[sq].bb : sq \in opp},
             checkers |->
                [melee |-> ConcatAll([i \in 1..Len(order) |-> contrib[order[i]].melee]),
                 sliders |-> ConcatAll([i \in 1..Len(order) |-> contrib[order[i]].sliders])],
             pinners |-> ConcatAll([i \in 1..Len(order) |-> contrib[order[i]].pinners])]]

resolve_capture_only(state, to_sq) ==
    LET piece == state.board_ext.pieces[to_sq]
    IN  IF piece # None THEN Some(Regular(Unwrap(piece).kind)) ELSE None

resolve_ep(state, to_sq) ==
    IF Some(to_sq) = state.position.ep_target THEN Some(EnPassant) ELSE None

resolve_capture(state, to_sq) ==
    LET c == resolve_capture_only(state, to_sq)
    IN  IF c # None THEN c ELSE resolve_ep(state, to_sq)

-----------------------------------------------------------------------------
(* Pseudo moves (engine/src/movegen/mod.rs)                                *)

sliding_moves(state, DIR, sq) ==
    LET P == state.position
        friendly == P.board.color_bb[P.active_color]
        blockers == get_full_bb(P.board)
    IN  merge_bb(sliding_attacks(DIR, sq, blockers)) \ friendly

pseudo_bishop_moves(state, sq) == sliding_moves(state, 0, sq)

pseudo_rook_moves(state, sq) == sliding_moves(state, 1, sq)

\* a variant that keeps the squares of friendly pieces
pseudo_knight_moves_unmasked(state, sq) == knight_attacks(sq)

pseudo_knight_moves(state, sq) ==
    knight_attacks(sq) \ state.position.board.color_bb[state.position.active_color]

\* a variant that keeps the squares of friendly pieces
pseudo_king_moves_unmasked(state, sq) == king_attacks(sq)

pseudo_king_moves(state, sq) ==
    king_attacks(sq) \ state.position.board.color_bb[state.position.active_color]

pseudo_pawn_moves(state, sq) ==
    LET P == state.position
        unfriendly0 == P.board.color_bb[Opposite(P.active_color)]
        blockers == get_full_bb(P.board)
        unfriendly == IF P.ep_target # None
                      THEN unfriendly0 \cup FromSquare(Unwrap(P.ep_target))
                      ELSE unfriendly0
        start == {sq}
        captures == pawn_attacks(sq, P.active_color) \cap unfriendly
    IN  IF P.active_color = White
        THEN LET next == Shl(start, 8)
                 next_2 == Shl(next, 8)
             IN  IF blockers \cap next = {} /\ Rank(sq) < 7
                 THEN captures \cup next
                      \cup (IF Rank(sq) = 1 /\ blockers \cap next_2 = {} THEN next_2 ELSE {})
                 ELSE captures
        ELSE LET next == Shr(start, 8)
                 next_2 == Shr(next, 8)
             IN  IF blockers \cap next = {} /\ Rank(sq) > 1
                 THEN captures \cup next
                      \cup (IF Rank(sq) = 6 /\ blockers \cap next_2 = {} THEN next_2 ELSE {})
                 ELSE captures

pseudo_moves(state, sq, kind) ==
    CASE kind = Pawn -> pseudo_pawn_moves(state, sq)
      [] kind = Knight -> pseudo_knight_moves(state, sq)
      [] kind = Bishop -> pseudo_bishop_moves(state, sq)
      [] kind = Rook -> pseudo_rook_moves(state, sq)
      [] kind = Queen -> pseudo_bishop_moves(state, sq) \cup pseudo_rook_moves(state, sq)
      [] kind = King -> pseudo_king_moves(state, sq)

-----------------------------------------------------------------------------
(* Castling descriptors and the legal move list                            *)

MoveExt(kind, from, to, promotion, capture) ==
    [piece_kind |-> kind, from |-> from, to |-> to,
     promotion |-> promotion, capture |-> capture]

\* MoveExt::to_move: the LAN triple
to_move(m) == <<m.from, m.to, m.promotion>>

CASTLING_CHECKS ==
    LET startW == {1, 2, 3}
        startB == {57, 58, 59}
    IN  << [clear |-> Shl(startW, 4) \ {7}, safe |-> Shl(startW, 3), to_sq |-> 6],
           [clear |-> startW, safe |-> Shl(startW, 1), to_sq |-> 2],
           [clear |-> Shl(startB, 4) \ {63}, safe |-> Shl(startB, 3), to_sq |-> 58],
           [clear |-> startB, safe |-> Shl(startB, 1), to_sq |-> 62] >>

\* the closure do_checks of castling_moves
do_checks(state, checks) ==
    LET blockers == get_full_bb(state.position.board)
    IN  IF checks.clear \cap blockers = {} /\ checks.safe \cap state.attacks.bb = {}
        THEN <<MoveExt(King, MinOf(state.board_ext.king_bb), checks.to_sq, None, None)>>
        ELSE << >>

castling_moves(state) ==
    LET rights == state.position.castling
    IN  IF state.position.active_color = White
        THEN (IF WHITE_OO \in rights THEN do_checks(state, CASTLING_CHECKS[1]) ELSE << >>)
             \o (IF WHITE_OOO \in rights THEN do_checks(state, CASTLING_CHECKS[2]) ELSE << >>)
        ELSE (IF BLACK_OO \in rights THEN do_checks(state, CASTLING_CHECKS[3]) ELSE << >>)
             \o (IF BLACK_OOO \in rights THEN do_checks(state, CASTLING_CHECKS[4]) ELSE << >>)

\* the moves of the king, emitted first
king_moves_of(state) ==
    LET king_sq == MinOf(state.board_ext.king_bb)
        king_moves == pseudo_king_moves(state, king_sq) \ state.attacks.bb
        tos == SetIter(king_moves)
    IN  [i \in 1..Len(tos) |->
            MoveExt(King, king_sq, tos[i], None, resolve_capture_only(state, tos[i]))]

\* the check restriction mask
restricted_of(state) ==
    LET melee == state.attacks.checkers.melee
        sliders == state.attacks.checkers.sliders
        r0 == Squares
        r1 == IF Len(melee) > 0 THEN FromSquare(melee[1]) ELSE r0
    IN  IF Len(sliders) > 0 THEN sliders[1] ELSE r1

\* the body of the loop over the friendly squares, for one square
piece_moves_of(state, restricted0, square) ==
    LET pinners == state.attacks.pinners
        hit == {i \in 1..Len(pinners) : square \in pinners[i]}
        restricted == IF hit = {} THEN restricted0
                      ELSE restricted0 \cap pinners[MinOf(hit)]
        p_kind == Unwrap(state.board_ext.pieces[square]).kind
        legal_moves == pseudo_moves(state, square, p_kind) \cap restricted
        tos == SetIter(legal_moves)
        promotable == IF state.position.active_color = White
                      THEN Rank(square) = 6 ELSE Rank(square) = 1
    IN  IF p_kind = Pawn
        THEN IF promotable
             THEN ConcatAll([i \in 1..Len(tos) |->
                    [j \in 1..Len(PROMOTABLE) |->
                        MoveExt(Pawn, square, tos[i], Some(PROMOTABLE[j]),
                                resolve_capture_only(state, tos[i]))]])
             ELSE [i \in 1..Len(tos) |->
                    MoveExt(Pawn, square, tos[i], None, resolve_capture(state, tos[i]))]
        ELSE IF p_kind # King
        THEN [i \in 1..Len(tos) |->
                MoveExt(p_kind, square, tos[i], None, resolve_capture_only(state, tos[i]))]
        ELSE << >>

\* Generator::generate_impl; the caller has checked that it does not panic
generate_impl(state) ==
    LET checkers == state.attacks.checkers
        km == king_moves_of(state)
        friendly == SetIter(state.position.board.color_bb[state.position.active_color])
        restricted == restricted_of(state)
    IN  IF Len(checkers.melee) + Len(checkers.sliders) > 1 THEN km
        ELSE km
             \o ConcatAll([i \in 1..Len(friendly) |->
                            piece_moves_of(state, restricted, friendly[i])])
             \o castling_moves(state)

\* generate_impl panics when the king mask is empty (to_square_unchecked gives
\* 64, which indexes KING_ATTACKS out of bounds) and when a friendly square has
\* no piece kind (unwrap of None)
Panics(state) ==
    \/ state.board_ext.king_bb = {}
    \/ /\ Len(state.attacks.checkers.melee) + Len(state.attacks.checkers.sliders) <= 1
       /\ \E sq \in state.position.board.color_bb[state.position.active_color] :
            state.board_ext.pieces[sq] = None

\* MoveList::generate: Moves(list), Checkmate, Stalemate; Panic is the abort
generate(state) ==
    IF Panics(state) THEN [verdict |-> "Panic", list |-> << >>]
    ELSE LET list == generate_impl(state)
         IN  IF list = << >>
             THEN IF state.attacks.bb \cap state.board_ext.king_bb # {}
                  THEN [verdict |-> "Checkmate", list |-> << >>]
                  ELSE [verdict |-> "Stalemate", list |-> << >>]
             ELSE [verdict |-> "Moves", list |-> list]

MoveListOf(P) == generate(PositionState(P))

-----------------------------------------------------------------------------
(* Move application (board/src/position.rs)                                *)

unset_oo(rights, color) ==
    IF color = White THEN rights \ {WHITE_OO} ELSE rights \ {BLACK_OO}

unset_ooo(rights, color) ==
    IF color = White THEN rights \ {WHITE_OO} ELSE rights \ {BLACK_OO}

reset_rook_castling(rights, active_color, square_bb) ==
    IF square_bb \cap A_FILE # {} THEN unset_ooo(rights, active_color)
    ELSE IF square_bb \cap H_FILE # {} THEN unset_oo(rights, active_color)
    ELSE rights

\* a variant with the two directions exchanged
captured_sq_ahead(us, to_sq) ==
    IF us = White THEN Shl(to_sq, 8) ELSE Shr(to_sq, 8)

\* the square of the pawn taken en passant: one rank behind the destination
captured_sq_of(us, to_sq) ==
    IF us = White THEN Shr(to_sq, 8) ELSE Shl(to_sq, 8)

\* a variant that forgets to look at the piece kind
ep_target_any_piece(P, m) ==
    IF AbsDiff(m.to, m.from) = 16
    THEN Some(IF P.active_color = White THEN m.from + 8 ELSE m.from - 8)
    ELSE None

\* reset ep, then the double push sets the ep target
ep_target_after(P, m) ==
    IF m.piece_kind = Pawn /\ AbsDiff(m.to, m.from) = 16
    THEN Some(IF P.active_color = White THEN m.from + 8 ELSE m.from - 8)
    ELSE None

\* a variant that always takes the king-side squares
castle_rook_squares_king_side(m, from_sq) ==
    [rook_from_sq |-> Shl(from_sq, 3), rook_to_sq |-> Shl(from_sq, 1)]

\* do castles: the squares the rook leaves and reaches, queen side when the
\* king moves towards the a-file
castle_rook_squares(m, from_sq) ==
    IF m.to < m.from
    THEN [rook_from_sq |-> Shr(from_sq, 4), rook_to_sq |-> Shr(from_sq, 1)]
    ELSE [rook_from_sq |-> Shl(from_sq, 3), rook_to_sq |-> Shl(from_sq, 1)]

apply_move_unchecked(P, m) ==
    LET us == P.active_color
        them == Opposite(us)
        from_sq == FromSquare(m.from)
        to_sq == FromSquare(m.to)
        \* apply move
        c1 == [P.board.color_bb EXCEPT ![us] = (@ \ from_sq) \cup to_sq]
        p1 == [P.board.piece_bb EXCEPT ![m.piece_kind] = (@ \ from_sq) \cup to_sq]
        \* handle castling
        isKing == m.piece_kind = King
        castles == isKing /\ AbsDiff(m.from, m.to) = 2
        rook_from_sq == castle_rook_squares(m, from_sq).rook_from_sq
        rook_to_sq == castle_rook_squares(m, from_sq).rook_to_sq
        r1 == IF isKing THEN unset_ooo(unset_oo(P.castling, us), us) ELSE P.castling
        p2 == IF castles
              THEN [p1 EXCEPT ![Rook] = (@ \ rook_from_sq) \cup rook_to_sq] ELSE p1
        c2 == IF castles
              THEN [c1 EXCEPT ![us] = (@ \ rook_from_sq) \cup rook_to_sq] ELSE c1
        r2 == IF m.piece_kind = Rook THEN reset_rook_castling(r1, us, from_sq) ELSE r1
        \* handle special pawn cases
        promotes == m.piece_kind = Pawn /\ m.promotion # None
        p3a == IF promotes THEN [p2 EXCEPT ![Pawn] = @ \ to_sq] ELSE p2
        p3 == IF promotes THEN [p3a EXCEPT ![Unwrap(m.promotion)] = @ \cup to_sq] ELSE p3a
        ep == ep_target_after(P, m)
        \* check for capture
        isRegular == m.capture # None /\ Unwrap(m.capture)[1] = "Regular"
        isEp == m.capture # None /\ Unwrap(m.capture)[1] = "EnPassant"
        cap == IF isRegular THEN Unwrap(m.capture)[2] ELSE Pawn
        captured_sq == captured_sq_of(us, to_sq)
        c3 == IF isRegular THEN [c2 EXCEPT ![them] = @ \ to_sq]
              ELSE IF isEp THEN [c2 EXCEPT ![them] = @ \ captured_sq]
              ELSE c2
        p4a == IF isRegular THEN [p3 EXCEPT ![cap] = @ \ to_sq] ELSE p3
        p4 == IF isRegular THEN [p4a EXCEPT ![m.piece_kind] = @ \cup to_sq]
              ELSE IF isEp THEN [p4a EXCEPT ![Pawn] = @ \ captured_sq]
              ELSE p4a
        r3 == IF isRegular /\ cap = Rook THEN reset_rook_castling(r2, us, to_sq) ELSE r2
    IN  [board |-> [color_bb |-> c3, piece_bb |-> p4],
         active_color |-> them,
         castling |-> r3,
         ep_target |-> ep,
         \* increment counters (u8)
         halfmove_clock |-> IF m.capture = None \/ m.piece_kind # Pawn
                            THEN (P.halfmove_clock + 1) % 256 ELSE P.halfmove_clock,
         fullmove_counter |-> IF us = Black THEN (P.fullmove_counter + 1) % 256
                              ELSE P.fullmove_counter]

-----------------------------------------------------------------------------
(* The perft driver: generate, then apply a generated move                 *)

\* the number of moves played off the scripted games
MaxFree == 1

M(from, to) == <<from, to, None>>

\* Games from the starting position, as LAN moves; each is replayed through
\* generate and apply_move_unchecked, and left by at most MaxFree other moves.
Scripts ==
    << \* f2f3 e7e5 g2g4 d8h4
       <<M(13, 21), M(52, 36), M(14, 30), M(59, 31)>>,
       \* a2a3 g8f6 a3a4 e7e6 a4a5 f8e7 a5a6
       <<M(8, 16), M(62, 45), M(16, 24), M(52, 44), M(24, 32), M(61, 52), M(32, 40)>>,
       \* d2d4 a7a6 d4d5 a6a5 e1d2 a5a4 d2d3 a4a3 d3d4 c7c5
       <<M(11, 27), M(48, 40), M(27, 35), M(40, 32), M(4, 11), M(32, 24), M(11, 19),
         M(24, 16), M(19, 27), M(50, 34)>>,
       \* a2a4 a7a6 a1a3 b7b6 d2d4 c7c6 b1c3 d7d6 c1f4 e7e6 d1d3 f7f6
       <<M(8, 24), M(48, 40), M(0, 16), M(49, 41), M(11, 27), M(50, 42), M(1, 18),
         M(51, 43), M(2, 29), M(52, 44), M(3, 19), M(53, 45)>>,
       \* b2b3 g7g6 c1b2 a7a6
       <<M(9, 17), M(54, 46), M(2, 9), M(48, 40)>>,
       \* h2h4 g7g5 h4g5 a7a6 g5g6 a6a5 g6h7 a5a4
       <<M(15, 31), M(54, 38), M(31, 38), M(48, 40), M(38, 46), M(40, 32), M(46, 55),
         M(32, 24)>>,
       \* e2e4 c7c6 e4e5 d8a5 e1e2 a7a6 e2f3 b7b6 f3g4 h7h6 g4h5 f7f5
       <<M(12, 28), M(50, 42), M(28, 36), M(59, 32), M(4, 12), M(48, 40), M(12, 21),
         M(49, 41), M(21, 30), M(55, 47), M(30, 39), M(53, 37)>>,
       \* a2a3 e7e5 a3a4 e5e4 d2d4
       <<M(8, 16), M(52, 36), M(16, 24), M(36, 28), M(11, 27)>>,
       \* h2h4 g7g5 h4g5 h7h6 g5h6 g8f6 h6h7 h8g8
       <<M(15, 31), M(54, 38), M(31, 38), M(55, 47), M(38, 47), M(62, 45), M(47, 55),
         M(63, 62)>>,
       \* h2h3 a7a5 h3h4 a5a4 h4h5 a4a3 h5h6 a3b2 h6g7
       <<M(15, 23), M(48, 32), M(23, 31), M(32, 24), M(31, 39), M(24, 16), M(39, 47),
         M(16, 9), M(47, 54)>>,
       \* e2e4 f7f5 d1h5 a7a6 b1c3 a6a5 c3b5 h7h6 b5d6
       <<M(12, 28), M(53, 37), M(3, 39), M(48, 40), M(1, 18), M(40, 32), M(18, 33),
         M(55, 47), M(33, 43)>> >>

Init ==
    /\ position = starting
    /\ move_list = MoveListOf(starting)
    /\ prev = starting
    /\ last = None
    /\ ply = 0
    /\ free = 0
    /\ script \in 1..Len(Scripts)

\* one of the u8 counters is at 255 and apply_move_unchecked increments it
Overflows(P, m) ==
    \/ (m.capture = None \/ m.piece_kind # Pawn) /\ P.halfmove_clock = 255
    \/ P.active_color = Black /\ P.fullmove_counter = 255

\* perft: new_position.apply_move_unchecked(p_move), then generate again.
\* When a counter overflows, a build without overflow checks wraps it (the
\* value apply_move_unchecked gives) and a build with overflow checks aborts
\* inside apply_move_unchecked, leaving the position as it was.
Step(m) ==
    \/ /\ position' = apply_move_unchecked(position, m)
       /\ move_list' = MoveListOf(position')
       /\ prev' = position
       /\ last' = Some(m)
       /\ ply' = ply + 1
       /\ UNCHANGED script
    \/ /\ Overflows(position, m)
       /\ move_list' = [verdict |-> "Overflow", list |-> << >>]
       /\ prev' = position
       /\ last' = None
       /\ UNCHANGED <<position, ply, script>>

\* the next move of the scripted game, when generate lists it
FollowScript ==
    /\ free = 0
    /\ ply < Len(Scripts[script])
    /\ move_list.verdict = "Moves"
    /\ \E i \in 1..Len(move_list.list) :
        /\ to_move(move_list.list[i]) = Scripts[script][ply + 1]
        /\ Step(move_list.list[i])
    /\ UNCHANGED free

\* any move of the generated list
PlayFree ==
    /\ free < MaxFree
    /\ move_list.verdict = "Moves"
    /\ \E i \in 1..Len(move_list.list) : Step(move_list.list[i])
    /\ free' = free + 1

Next == FollowScript \/ PlayFree

Spec == Init /\ [][Next]_vars

\* A long game: the king's knights go out and back, for MaxPlies plies.
MaxPlies == 512

Shuffle == <<M(6, 21), M(62, 45), M(21, 6), M(45, 62)>>

InitLong ==
    /\ position = starting
    /\ move_list = MoveListOf(starting)
    /\ prev = starting
    /\ last = None
    /\ ply = 0
    /\ free = 0
    /\ script = 0

PlayShuffle ==
    /\ script = 0
    /\ ply < MaxPlies
    /\ move_list.verdict = "Moves"
    /\ \E i \in 1..Len(move_list.list) :
        /\ to_move(move_list.list[i]) = Shuffle[(ply % 4) + 1]
        /\ Step(move_list.list[i])
    /\ UNCHANGED free

NextLong == PlayShuffle

SpecLong == InitLong /\ [][NextLong]_vars

-----------------------------------------------------------------------------
(* FEN parsing (fen/src/de.rs).  A FEN string is the sequence of its        *)
(* characters.                                                             *)

DigitChars == <<"0", "1", "2", "3", "4", "5", "6", "7", "8", "9">>

is_digit(c) == \E d \in 1..10 : DigitChars[d] = c

DigitValue(c) == (CHOOSE d \in 1..10 : DigitChars[d] = c) - 1

\* Piece::from_char
from_char(c) ==
    LET upper == <<"P", "N", "B", "R", "Q", "K">>
        lower == <<"p", "n", "b", "r", "q", "k">>
    IN  IF \E i \in 1..6 : upper[i] = c
        THEN Some([color |-> White,
                   kind |-> PieceKinds[CHOOSE i \in 1..6 : upper[i] = c]])
        ELSE IF \E i \in 1..6 : lower[i] = c
        THEN Some([color |-> Black,
                   kind |-> PieceKinds[CHOOSE i \in 1..6 : lower[i] = c]])
        ELSE None

\* Board::default
EmptyBoard == [color_bb |-> [c \in Colors |-> {}], piece_bb |-> [k \in KindSet |-> {}]]

\* Board::set
set(board, square, piece) ==
    IF piece # None
    THEN [color_bb |-> [board.color_bb EXCEPT ![Unwrap(piece).color] = @ \cup FromSquare(square)],
          piece_bb |-> [board.piece_bb EXCEPT ![Unwrap(piece).kind] = @ \cup FromSquare(square)]]
    ELSE [color_bb |-> [c \in Colors |-> board.color_bb[c] \ FromSquare(square)],
          piece_bb |-> [k \in KindSet |-> board.piece_bb[k] \ FromSquare(square)]]

\* the pieces of a string between the occurrences of the separator sep
SplitAt(chars, sep) ==
    LET hits == SetIter({i \in 1..Len(chars) : chars[i] = sep})
        cuts == <<0>> \o hits \o <<Len(chars) + 1>>
    IN  [n \in 1..(Len(hits) + 1) |-> SubSeq(chars, cuts[n] + 1, cuts[n + 1] - 1)]

\* the fields of a FEN string, separated by spaces
FenFields(chars) == SplitAt(chars, " ")

\* the inner loop of parse_board over the characters of one rank: a digit
\* skips squares, a piece letter is set and the square advances.  The loop
\* state is read at every step; an index past h8 is outside what Board::set
\* can shift, no FEN of the tests produces one, and the loop stops there
RECURSIVE ParseRank(_, _)
ParseRank(rank, st) ==
    IF rank = << >> \/ st.square \notin Squares THEN st
    ELSE LET c == Head(rank)
             nxt == IF is_digit(c)
                    THEN [square |-> st.square + DigitValue(c), board |-> st.board]
                    ELSE [square |-> st.square + 1,
                          board |-> set(st.board, st.square, from_char(c))]
         IN  ParseRank(Tail(rank), nxt)

\* the outer loop of parse_board: after each rank the square goes back 16
RECURSIVE ParseRanks(_, _)
ParseRanks(ranks, st) ==
    IF ranks = << >> \/ st.square \notin Squares THEN st
    ELSE LET done == ParseRank(Head(ranks), st)
             back == IF done.square >= 16 THEN done.square - 16 ELSE 0
         IN  ParseRanks(Tail(ranks), [square |-> back, board |-> done.board])

parse_board(field) ==
    ParseRanks(SplitAt(field, "/"), [square |-> At(7, 0), board |-> EmptyBoard]).board

parse_active_color(field) == IF field[1] \in {"w", "W"} THEN White ELSE Black

parse_castling_rights(field) ==
    LET has(c) == \E i \in 1..Len(field) : field[i] = c
    IN  (IF has("K") THEN {WHITE_OO} ELSE {})
        \cup (IF has("Q") THEN {WHITE_OOO} ELSE {})
        \cup (IF has("k") THEN {BLACK_OO} ELSE {})
        \cup (IF has("q") THEN {BLACK_OOO} ELSE {})

\* Square::from_str on a file letter and a rank digit
SquareFromStr(field) ==
    LET files == <<"a", "b", "c", "d", "e", "f", "g", "h">>
        filesUpper == <<"A", "B", "C", "D", "E", "F", "G", "H">>
        fs == {i \in 1..8 : files[i] = field[1] \/ filesUpper[i] = field[1]}
    IN  IF Len(field) # 2 \/ fs = {} \/ ~is_digit(field[2])
            \/ DigitValue(field[2]) \notin 1..8
        THEN None
        ELSE Some(At(DigitValue(field[2]) - 1, MinOf(fs) - 1))

parse_ep_target(field) == IF field = <<"-">> THEN None ELSE SquareFromStr(field)

RECURSIVE parse_u8(_)
parse_u8(field) ==
    IF field = << >> THEN 0
    ELSE 10 * parse_u8(SubSeq(field, 1, Len(field) - 1)) + DigitValue(field[Len(field)])

\* parse / from_str
from_str(chars) ==
    LET f == FenFields(chars)
    IN  [board |-> parse_board(f[1]),
         active_color |-> parse_active_color(f[2]),
         castling |-> parse_castling_rights(f[3]),
         ep_target |-> parse_ep_target(f[4]),
         halfmove_clock |-> parse_u8(f[5]),
         fullmove_counter |-> parse_u8(f[6])]

\* perft.rs: start_pos
\* rnbqkbnr/pppppppp/8/8/8/8/PPPPPPPP/RNBQKBNR w KQkq - 0 1
START_POS ==
    <<"r", "n", "b", "q", "k", "b", "n", "r", "/", "p", "p", "p", "p",
      "p", "p", "p", "p", "/", "8", "/", "8", "/", "8", "/", "8", "/",
      "P", "P", "P", "P", "P", "P", "P", "P", "/", "R", "N", "B", "Q",
      "K", "B", "N", "R", " ", "w", " ", "K", "Q", "k", "q", " ", "-",
      " ", "0", " ", "1">>

\* perft.rs: pos_5
\* rnbq1k1r/pp1Pbppp/2p5/8/2B5/8/PPP1NnPP/RNBQK2R w KQ - 1 8
POS_5 ==
    <<"r", "n", "b", "q", "1", "k", "1", "r", "/", "p", "p", "1", "P",
      "b", "p", "p", "p", "/", "2", "p", "5", "/", "8", "/", "2", "B",
      "5", "/", "8", "/", "P", "P", "P", "1", "N", "n", "P", "P", "/",
      "R", "N", "B", "Q", "K", "2", "R", " ", "w", " ", "K", "Q", " ",
      "-", " ", "1", " ", "8">>

\* movegen tests: ep white
\* rnbqkbnr/pppp1ppp/8/3Pp3/8/8/PPP1PPPP/RNBQKBNR w KQkq e6 0 1
FEN_EP_WHITE ==
    <<"r", "n", "b", "q", "k", "b", "n", "r", "/", "p", "p", "p", "p",
      "1", "p", "p", "p", "/", "8", "/", "3", "P", "p", "3", "/", "8",
      "/", "8", "/", "P", "P", "P", "1", "P", "P", "P", "P", "/", "R",
      "N", "B", "Q", "K", "B", "N", "R", " ", "w", " ", "K", "Q", "k",
      "q", " ", "e", "6", " ", "0", " ", "1">>

\* movegen tests: ep black
\* rnbqkbnr/pppp1ppp/8/8/3Pp3/8/PPP1PPPP/RNBQKBNR b KQkq d3 0 1
FEN_EP_BLACK ==
    <<"r", "n", "b", "q", "k", "b", "n", "r", "/", "p", "p", "p", "p",
      "1", "p", "p", "p", "/", "8", "/", "8", "/", "3", "P", "p", "3",
      "/", "8", "/", "P", "P", "P", "1", "P", "P", "P", "P", "/", "R",
      "N", "B", "Q", "K", "B", "N", "R", " ", "b", " ", "K", "Q", "k",
      "q", " ", "d", "3", " ", "0", " ", "1">>

\* movegen tests: king middle
\* rnbqkbnr/pppppppp/8/8/3K4/8/PPPPPPPP/RNBQ1BNR w kq - 0 1
FEN_KING_MIDDLE ==
    <<"r", "n", "b", "q", "k", "b", "n", "r", "/", "p", "p", "p", "p",
      "p", "p", "p", "p", "/", "8", "/", "8", "/", "3", "K", "4", "/",
      "8", "/", "P", "P", "P", "P", "P", "P", "P", "P", "/", "R", "N",
      "B", "Q", "1", "B", "N", "R", " ", "w", " ", "k", "q", " ", "-",
      " ", "0", " ", "1">>

\* movegen tests: king side
\* rnbqkbnr/pppp1ppp/8/K3p3/1P6/8/PP1PPPPP/RNBQ1BNR w kq - 0 1
FEN_KING_SIDE ==
    <<"r", "n", "b", "q", "k", "b", "n", "r", "/", "p", "p", "p", "p",
      "1", "p", "p", "p", "/", "8", "/", "K", "3", "p", "3", "/", "1",
      "P", "6", "/", "8", "/", "P", "P", "1", "P", "P", "P", "P", "P",
      "/", "R", "N", "B", "Q", "1", "B", "N", "R", " ", "w", " ", "k",
      "q", " ", "-", " ", "0", " ", "1">>

\* the positions the tests of the repository generate moves for
TestFens == <<START_POS, POS_5, FEN_EP_WHITE, FEN_EP_BLACK, FEN_KING_MIDDLE, FEN_KING_SIDE>>

\* do_perft: parse the FEN, then perft
InitFen ==
    /\ \E n \in 1..Len(TestFens) : position = from_str(TestFens[n])
    /\ move_list = MoveListOf(position)
    /\ prev = position
    /\ last = None
    /\ ply = 0
    /\ free = 0
    /\ script = 0

NextFen == PlayFree

SpecFen == InitFen /\ [][NextFen]_vars

-----------------------------------------------------------------------------
(* The rules of chess, stated on squares, against which the generated list *)
(* is compared.  A rules board maps each square to None or Some(piece).    *)

Abs(x) == IF x < 0 THEN -x ELSE x

Sign(x) == IF x > 0 THEN 1 ELSE IF x < 0 THEN -1 ELSE 0

RulesBoard(P) == [sq \in Squares |-> get(P.board, sq)]

\* the squares strictly between s and t on a common rank, file or diagonal
Between(s, t) ==
    LET dr == Rank(t) - Rank(s)
        df == File(t) - File(s)
        n == IF Abs(dr) > Abs(df) THEN Abs(dr) ELSE Abs(df)
    IN  {At(Rank(s) + i * Sign(dr), File(s) + i * Sign(df)) : i \in 1..(n - 1)}

Aligned(s, t, diagonal) ==
    LET dr == Rank(t) - Rank(s)
        df == File(t) - File(s)
    IN  /\ s # t
        /\ IF diagonal THEN Abs(dr) = Abs(df) ELSE dr = 0 \/ df = 0

\* a piece of the given color and kind on s attacks t on rules board b
RulesAttacks(b, color, kind, s, t) ==
    LET dr == Rank(t) - Rank(s)
        df == File(t) - File(s)
        open == \A x \in Between(s, t) : b[x] = None
    IN  CASE kind = Pawn -> Abs(df) = 1 /\ dr = (IF color = White THEN 1 ELSE -1)
          [] kind = Knight -> {Abs(dr), Abs(df)} = {1, 2}
          [] kind = King -> s # t /\ Abs(dr) <= 1 /\ Abs(df) <= 1
          [] kind = Bishop -> Aligned(s, t, TRUE) /\ open
          [] kind = Rook -> Aligned(s, t, FALSE) /\ open
          [] kind = Queen -> (Aligned(s, t, TRUE) \/ Aligned(s, t, FALSE)) /\ open

\* some piece of color `by` attacks t
RulesAttacked(b, by, t) ==
    \E s \in Squares :
        /\ b[s] # None
        /\ Unwrap(b[s]).color = by
        /\ RulesAttacks(b, by, Unwrap(b[s]).kind, s, t)

RulesInCheck(b, color) ==
    \E k \in Squares :
        /\ b[k] = Some([color |-> color, kind |-> King])
        /\ RulesAttacked(b, Opposite(color), k)

HomeRank(color) == IF color = White THEN 0 ELSE 7

Forward(color) == IF color = White THEN 8 ELSE -8

\* castling by the rules: side is "OO" or "OOO"
RulesRight(color, side) ==
    IF color = White THEN (IF side = "OO" THEN WHITE_OO ELSE WHITE_OOO)
    ELSE (IF side = "OO" THEN BLACK_OO ELSE BLACK_OOO)

RulesCastle(color, side) ==
    LET e == At(HomeRank(color), 4)
    IN  IF side = "OO"
        THEN [king_from |-> e, king_to |-> e + 2, rook_from |-> e + 3, rook_to |-> e + 1,
              empty |-> {e + 1, e + 2}, unattacked |-> {e, e + 1, e + 2}]
        ELSE [king_from |-> e, king_to |-> e - 2, rook_from |-> e - 4, rook_to |-> e - 1,
              empty |-> {e - 1, e - 2, e - 3}, unattacked |-> {e, e - 1, e - 2}]

RulesCanCastle(P, b, side) ==
    LET us == P.active_color
        c == RulesCastle(us, side)
    IN  /\ RulesRight(us, side) \in P.castling
        /\ b[c.king_from] = Some([color |-> us, kind |-> King])
        /\ b[c.rook_from] = Some([color |-> us, kind |-> Rook])
        /\ \A x \in c.empty : b[x] = None
        /\ \A x \in c.unattacked : ~RulesAttacked(b, Opposite(us), x)

\* the destinations a piece on s may move to, king safety aside
RulesTargets(P, b, s) ==
    LET us == P.active_color
        kind == Unwrap(b[s]).kind
        own(t) == b[t] # None /\ Unwrap(b[t]).color = us
        enemy(t) == b[t] # None /\ Unwrap(b[t]).color # us
        fwd == Forward(us)
        startRank == IF us = White THEN 1 ELSE 6
    IN  IF kind = Pawn
        THEN {t \in Squares :
                \/ t = s + fwd /\ b[t] = None
                \/ /\ t = s + 2 * fwd
                   /\ Rank(s) = startRank
                   /\ b[s + fwd] = None
                   /\ b[t] = None
                \/ /\ RulesAttacks(b, us, Pawn, s, t)
                   /\ enemy(t) \/ (P.ep_target = Some(t) /\ b[t] = None)}
        ELSE {t \in Squares : ~own(t) /\ RulesAttacks(b, us, kind, s, t)}

\* the rules board after the piece on s moved to t
RulesAfter(P, b, s, t, promotion) ==
    LET us == P.active_color
        piece == Unwrap(b[s])
        isEp == piece.kind = Pawn /\ P.ep_target = Some(t) /\ b[t] = None
                    /\ File(s) # File(t)
        placed == IF promotion = None THEN piece
                  ELSE [color |-> us, kind |-> Unwrap(promotion)]
    IN  [x \in Squares |->
            IF x = s THEN None
            ELSE IF x = t THEN Some(placed)
            ELSE IF isEp /\ x = t - Forward(us) THEN None
            ELSE b[x]]

\* the legal moves of position P under the rules of chess, as LAN triples
RulesLegalMoves(P) ==
    LET us == P.active_color
        b == RulesBoard(P)
        mine == {s \in Squares : b[s] # None /\ Unwrap(b[s]).color = us}
        promos(s, t) ==
            IF Unwrap(b[s]).kind = Pawn /\ Rank(t) = HomeRank(Opposite(us))
            THEN {Some(k) : k \in {Knight, Bishop, Rook, Queen}} ELSE {None}
        plain == UNION {UNION {{<<s, t, pr>> : pr \in promos(s, t)} :
                                t \in {t \in RulesTargets(P, b, s) :
                                        ~RulesInCheck(RulesAfter(P, b, s, t, None), us)}} :
                        s \in mine}
        castles == {<<RulesCastle(us, side).king_from, RulesCastle(us, side).king_to, None>> :
                        side \in {side \in {"OO", "OOO"} : RulesCanCastle(P, b, side)}}
    IN  plain \cup castles

\* the positions the generator is specified for: the board invariants hold,
\* the side that just moved is not in check, every castling right has its
\* king and rook at home, and the en passant target is behind a pushed pawn
LegalInput(P) ==
    LET b == RulesBoard(P)
        us == P.active_color
        them == Opposite(us)
        bd == P.board
    IN  /\ bd.color_bb[White] \cap bd.color_bb[Black] = {}
        /\ \A i, j \in 1..6 : i # j =>
                bd.piece_bb[PieceKinds[i]] \cap bd.piece_bb[PieceKinds[j]] = {}
        /\ get_full_bb(bd) = UNION {bd.piece_bb[k] : k \in KindSet}
        /\ \A c \in Colors : Cardinality(get_piece_bb(bd, c, King)) = 1
        /\ \A s \in bd.piece_bb[Pawn] : Rank(s) \in 1..6
        /\ ~RulesInCheck(b, them)
        /\ \A c \in Colors : \A side \in {"OO", "OOO"} :
                RulesRight(c, side) \in P.castling =>
                    /\ b[RulesCastle(c, side).king_from] = Some([color |-> c, kind |-> King])
                    /\ b[RulesCastle(c, side).rook_from] = Some([color |-> c, kind |-> Rook])
        /\ P.ep_target # None =>
                LET t == Unwrap(P.ep_target)
                IN  /\ Rank(t) = (IF us = White THEN 5 ELSE 2)
                    /\ b[t] = None
                    /\ b[t + Forward(us)] = None
                    /\ b[t - Forward(us)] = Some([color |-> them, kind |-> Pawn])

\* the LAN triples of the generated list
Listed == {to_move(move_list.list[i]) : i \in 1..Len(move_list.list)}

-----------------------------------------------------------------------------
(* Claims                                                                  *)

Moved == last # None

TheMove == Unwrap(last)

Mover == prev.active_color

RightsOf(color) == {RulesRight(color, "OO"), RulesRight(color, "OOO")}

Occupied(P) == Cardinality(get_full_bb(P.board))

BoardInvariants(bd) ==
    /\ bd.color_bb[White] \cap bd.color_bb[Black] = {}
    /\ \A i, j \in 1..6 : i # j =>
            bd.piece_bb[PieceKinds[i]] \cap bd.piece_bb[PieceKinds[j]] = {}
    /\ get_full_bb(bd) = UNION {bd.piece_bb[k] : k \in KindSet}
    /\ \A c \in Colors : Cardinality(get_piece_bb(bd, c, King)) = 1

\* C1: after a generated move is applied, the king of the side that moved
\* stands on a square that no piece of the other side attacks.
C1_KingSafety ==
    Moved => ~RulesInCheck(RulesBoard(position), Mover)

\* C2: on a legal input position every move that is legal under the rules of
\* chess is in the list that generate returns.
C2_Completeness ==
    LegalInput(position) => RulesLegalMoves(position) \subseteq Listed

\* C3: in every position reached by generated-then-applied moves the color
\* masks are disjoint, the piece-kind masks are pairwise disjoint, both unions
\* are the same set and each color has exactly one king.
C3_BoardInvariants == BoardInvariants(position.board)

\* C4: at most 32 squares are occupied, and apply lowers the number of
\* occupied squares by one for a capture and leaves it unchanged otherwise.
C4_OccupiedCount ==
    /\ Occupied(position) <= 32
    /\ Moved =>
        Occupied(position) =
            Occupied(prev) - (IF TheMove.capture # None THEN 1 ELSE 0)

\* C5: generate returns Checkmate exactly when the side to move has no legal
\* move and its king is in the opponent attack mask, Stalemate exactly when it
\* has no legal move and its king is not attacked, and otherwise Moves with a
\* non-empty list.
C5_TerminalVerdicts ==
    LegalInput(position) =>
        LET state == PositionState(position)
            attacked == state.attacks.bb \cap state.board_ext.king_bb # {}
            noLegal == RulesLegalMoves(position) = {}
        IN  /\ move_list.verdict = "Checkmate" <=> (noLegal /\ attacked)
            /\ move_list.verdict = "Stalemate" <=> (noLegal /\ ~attacked)
            /\ move_list.verdict \notin {"Checkmate", "Stalemate"} =>
                    move_list.verdict = "Moves" /\ move_list.list # << >>

\* C6: the castling move of color c and side s (king from e1/e8 to g1/g8 or
\* c1/c8, no capture, no promotion) is in the generated list if and only if c
\* is to move, the right is set, the squares between king and rook are empty
\* and the king's start, crossed and destination squares are not in the
\* opponent attack mask.
C6_CastlingGeneration ==
    move_list.verdict # "Panic" =>
        \A c \in Colors : \A side \in {"OO", "OOO"} :
            LET d == RulesCastle(c, side)
                state == PositionState(position)
                castle == MoveExt(King, d.king_from, d.king_to, None, None)
            IN  (\E i \in 1..Len(move_list.list) : move_list.list[i] = castle)
                <=> /\ position.active_color = c
                    /\ RulesRight(c, side) \in position.castling
                    /\ d.empty \cap get_full_bb(position.board) = {}
                    /\ d.unattacked \cap state.attacks.bb = {}

\* C7: after a king move neither castling right of the mover is set and the
\* opponent's castling rights are unchanged.
C7_KingMoveClearsRights ==
    (Moved /\ TheMove.piece_kind = King) =>
        /\ position.castling \cap RightsOf(Mover) = {}
        /\ position.castling \cap RightsOf(Opposite(Mover))
                = prev.castling \cap RightsOf(Opposite(Mover))

\* the castling rights the mover keeps after moving the piece of move m
MoverRightsKept(P, m) ==
    (P.castling \cap RightsOf(P.active_color))
        \ (IF m.piece_kind = King THEN RightsOf(P.active_color)
           ELSE IF m.piece_kind = Rook /\ File(m.from) = 0
           THEN {RulesRight(P.active_color, "OOO")}
           ELSE IF m.piece_kind = Rook /\ File(m.from) = 7
           THEN {RulesRight(P.active_color, "OO")}
           ELSE {})

\* C8: after a capture of a rook on the opponent's a-file (h-file) back-rank
\* corner the opponent's queen-side (king-side) right is cleared, and the
\* capture does not change the mover's own rights.
C8_CornerRookCapture ==
    (Moved /\ TheMove.capture = Some(Regular(Rook))
        /\ Rank(TheMove.to) = HomeRank(Opposite(Mover))
        /\ File(TheMove.to) \in {0, 7}) =>
        /\ RulesRight(Opposite(Mover), IF File(TheMove.to) = 0 THEN "OOO" ELSE "OO")
                \notin position.castling
        /\ position.castling \cap RightsOf(Mover) = MoverRightsKept(prev, TheMove)

\* C9: a rook move from the h-file clears the mover's king-side right and
\* keeps its queen-side right, a rook move from the a-file clears the
\* queen-side right and keeps the king-side right, and the opponent's rights
\* are unchanged.
C9_RookMoveClearsRight ==
    (Moved /\ TheMove.piece_kind = Rook /\ File(TheMove.from) \in {0, 7}) =>
        LET gone == RulesRight(Mover, IF File(TheMove.from) = 7 THEN "OO" ELSE "OOO")
            kept == RulesRight(Mover, IF File(TheMove.from) = 7 THEN "OOO" ELSE "OO")
        IN  /\ gone \notin position.castling
            /\ kept \in position.castling <=> kept \in prev.castling
            /\ position.castling \cap RightsOf(Opposite(Mover))
                    = prev.castling \cap RightsOf(Opposite(Mover))

\* C10: after a promotion the destination square is in the promoted kind's
\* mask and the mover's color mask, and in no other piece-kind mask nor in
\* the opponent's color mask.
C10_PromotionPlacement ==
    (Moved /\ TheMove.promotion # None) =>
        /\ TheMove.to \in position.board.piece_bb[Unwrap(TheMove.promotion)]
        /\ TheMove.to \in position.board.color_bb[Mover]
        /\ \A k \in KindSet \ {Unwrap(TheMove.promotion)} :
                TheMove.to \notin position.board.piece_bb[k]
        /\ TheMove.to \notin position.board.color_bb[Opposite(Mover)]

\* the mover's king stands on the rank the capturing pawn left, and an enemy
\* rook or queen on that rank has nothing between itself and the king
ExposedOnRank ==
    LET b == RulesBoard(position)
        r == Rank(TheMove.from)
    IN  \E k, s \in {x \in Squares : Rank(x) = r} :
            /\ b[k] = Some([color |-> Mover, kind |-> King])
            /\ b[s] \in {Some([color |-> Opposite(Mover), kind |-> Rook]),
                         Some([color |-> Opposite(Mover), kind |-> Queen])}
            /\ \A x \in Between(s, k) : b[x] = None

\* C11: no generated en passant capture leaves the mover's king attacked
\* along the rank of the two removed pawns by an enemy rook or queen.
C11_EnPassantDiscoveredCheck ==
    (Moved /\ TheMove.capture = Some(EnPassant)) => ~ExposedOnRank

\* C12: apply sets the halfmove clock to 0 when the applied move is a pawn
\* move or a capture, and otherwise to its previous value plus one.
C12_HalfmoveClock ==
    Moved =>
        position.halfmove_clock =
            IF TheMove.piece_kind = Pawn \/ TheMove.capture # None
            THEN 0 ELSE prev.halfmove_clock + 1

\* apply aborted on the overflow of the fullmove counter
FullmoveOverflow ==
    /\ move_list.verdict = "Overflow"
    /\ position.active_color = Black
    /\ position.fullmove_counter = 255

\* C13: after k applied moves White is to move exactly when k is even, and
\* the fullmove counter is 1 + floor(k / 2), without wrap-around or overflow.
C13_FullmoveCounter ==
    /\ position.active_color = White <=> ply % 2 = 0
    /\ position.fullmove_counter = 1 + (ply \div 2)
    /\ ~FullmoveOverflow

\* C14: apply leaves the en passant target empty unless the applied move is
\* a pawn move of two ranks, and then it is the square between from and to;
\* a present target lies on rank index 2 (Black to move) or 5 (White to
\* move), is an empty square, and the opponent's pawn stands just beyond it.
C14_EpTarget ==
    /\ Moved =>
            position.ep_target =
                IF TheMove.piece_kind = Pawn
                        /\ Abs(Rank(TheMove.to) - Rank(TheMove.from)) = 2
                THEN Some((TheMove.from + TheMove.to) \div 2) ELSE None
    /\ position.ep_target # None =>
            LET t == Unwrap(position.ep_target)
                us == position.active_color
            IN  /\ Rank(t) = (IF us = Black THEN 2 ELSE 5)
                /\ t \notin get_full_bb(position.board)
                /\ (t - Forward(us)) \in get_piece_bb(position.board, Opposite(us), Pawn)

\* a double push has just set the target, and the move before it had set one
\* that this apply cleared first
C14_Witness ==
    /\ Moved
    /\ position.ep_target # None
    /\ prev.ep_target # None
    /\ position.ep_target # prev.ep_target

\* C15: applying a castling move (a king move of two files) takes the
\* mover's rook from the h-file corner to the f-file square (king-side) or
\* from the a-file corner to the d-file square (queen-side) in the Rook mask
\* and the mover's color mask, leaves the corner empty and the king on its
\* destination.
C15_CastlingRook ==
    (Moved /\ TheMove.piece_kind = King
        /\ Rank(TheMove.from) = Rank(TheMove.to)
        /\ AbsDiff(File(TheMove.from), File(TheMove.to)) = 2) =>
        LET kingSide == File(TheMove.to) > File(TheMove.from)
            corner == At(HomeRank(Mover), IF kingSide THEN 7 ELSE 0)
            dest == At(HomeRank(Mover), IF kingSide THEN 5 ELSE 3)
        IN  /\ corner \in get_piece_bb(prev.board, Mover, Rook)
            /\ dest \in get_piece_bb(position.board, Mover, Rook)
            /\ corner \notin get_full_bb(position.board)
            /\ corner \notin position.board.piece_bb[Rook]
            /\ get(position.board, TheMove.to) = Some([color |-> Mover, kind |-> King])

\* C16: an applied en passant capture removes the opponent's pawn on the
\* square one rank behind the destination from the opponent's color mask and
\* from the Pawn mask, and nothing else; the destination was empty and holds
\* the mover's pawn afterwards.
C16_EnPassantCapture ==
    (Moved /\ TheMove.capture = Some(EnPassant)) =>
        LET victim == TheMove.to - Forward(Mover)
            them == Opposite(Mover)
            before == prev.board
            after == position.board
        IN  /\ victim \in get_piece_bb(before, them, Pawn)
            /\ TheMove.to \notin get_full_bb(before)
            /\ after.color_bb[them] = before.color_bb[them] \ {victim}
            /\ after.color_bb[Mover]
                    = (before.color_bb[Mover] \ {TheMove.from}) \cup {TheMove.to}
            /\ after.piece_bb[Pawn]
                    = (before.piece_bb[Pawn] \ {TheMove.from, victim}) \cup {TheMove.to}
            /\ \A k \in KindSet \ {Pawn} : after.piece_bb[k] = before.piece_bb[k]
            /\ get(after, TheMove.to) = Some([color |-> Mover, kind |-> Pawn])

\* an en passant capture has been applied
C16_Witness ==
    /\ Moved
    /\ TheMove.capture = Some(EnPassant)
    /\ TheMove.piece_kind = Pawn
    /\ prev.ep_target = Some(TheMove.to)

\* the pawns of the side to move that stand one step before their last rank
PromotablePawns ==
    LET us == position.active_color
    IN  {s \in get_piece_bb(position.board, us, Pawn) :
            /\ get(position.board, s) = Some([color |-> us, kind |-> Pawn])
            /\ Rank(s) = (IF us = White THEN 6 ELSE 1)}

\* the destinations of the legal moves of the piece on s
LegalDestinations(s) ==
    {mv[2] : mv \in {mv \in RulesLegalMoves(position) : mv[1] = s}}

\* C17: every legal destination of a pawn one step before its last rank is
\* in the generated list as exactly four moves, one per kind of Knight,
\* Bishop, Rook, Queen, and never without a promotion; every listed pawn move
\* that does not reach the last rank has no promotion.
C17_PromotionGeneration ==
    move_list.verdict # "Panic" =>
        LET L == move_list.list
            us == position.active_color
        IN  /\ \A s \in PromotablePawns :
                /\ \A t \in LegalDestinations(s) :
                    LET idx == {i \in 1..Len(L) : L[i].from = s /\ L[i].to = t}
                    IN  /\ Cardinality(idx) = 4
                        /\ {L[i].promotion : i \in idx}
                                = {Some(Knight), Some(Bishop), Some(Rook), Some(Queen)}
                        /\ \A i \in idx : L[i].piece_kind = Pawn
                /\ \A i \in 1..Len(L) : L[i].from = s => L[i].promotion # None
            /\ \A i \in 1..Len(L) :
                    (L[i].piece_kind = Pawn /\ Rank(L[i].to) # HomeRank(Opposite(us)))
                        => L[i].promotion = None

\* the on-board squares whose rank and file differ from sq's by at most 1
Adjacent(sq) ==
    {t \in Squares :
        /\ t # sq
        /\ Abs(Rank(t) - Rank(sq)) <= 1
        /\ Abs(File(t) - File(sq)) <= 1}

\* C18: for every square sq a king stands on, KING_ATTACKS[sq] is exactly the
\* set of adjacent on-board squares, with no square reached across the
\* a-file/h-file edge.
C18_KingAttacksExact ==
    \A sq \in position.board.piece_bb[King] : king_attacks(sq) = Adjacent(sq)

\* C19: on rnbq1k1r/pp1Pbppp/2p5/8/2B5/8/PPP1NnPP/RNBQK2R w KQ - 1 8
\* generate returns Moves with exactly 44 moves.
C19_PerftPos5 ==
    (ply = 0 /\ position = from_str(POS_5)) =>
        move_list.verdict = "Moves" /\ Len(move_list.list) = 44

\* the parsed position 5 with its generated list: the white pawn stands on d7
\* and the black knight on f2, White is to move with both its rights
C19_Witness ==
    /\ ply = 0
    /\ position = from_str(POS_5)
    /\ get(position.board, 51) = Some([color |-> White, kind |-> Pawn])
    /\ get(position.board, 13) = Some([color |-> Black, kind |-> Knight])
    /\ position.active_color = White
    /\ position.castling = {WHITE_OO, WHITE_OOO}
    /\ Len(move_list.list) = 44

\* C20: on the standard starting position generate returns Moves with exactly
\* 20 moves, never Checkmate or Stalemate.
C20_StartingMoves ==
    position = starting =>
        move_list.verdict = "Moves" /\ Len(move_list.list) = 20

\* the starting position with its generated list
C20_Witness ==
    /\ ply = 0
    /\ position = starting
    /\ move_list = MoveListOf(starting)
    /\ Len(move_list.list) = 20

\* the enemy bishops, rooks and queens of position P standing on a line of
\* their kind with the king of the side to move on k
EnemySlidersOnLine(P, k) ==
    LET b == RulesBoard(P)
        them == Opposite(P.active_color)
    IN  {s \in Squares :
            /\ b[s] # None
            /\ Unwrap(b[s]).color = them
            /\ \/ Unwrap(b[s]).kind \in {Bishop, Queen} /\ Aligned(s, k, TRUE)
               \/ Unwrap(b[s]).kind \in {Rook, Queen} /\ Aligned(s, k, FALSE)}

\* the attacker's square and the squares up to and including the king
LineTo(s, k) == {s} \cup Between(s, k) \cup {k}

\* the rays the derivation has to record as slider checks
ExpectedSliderChecks(P) ==
    LET b == RulesBoard(P)
        kings == get_piece_bb(P.board, P.active_color, King)
    IN  UNION {{LineTo(s, k) : s \in {s \in EnemySlidersOnLine(P, k) :
                                        \A x \in Between(s, k) : b[x] = None}} :
               k \in kings}

\* the rays the derivation has to record as pins
ExpectedPins(P) ==
    LET b == RulesBoard(P)
        us == P.active_color
        kings == get_piece_bb(P.board, us, King)
    IN  UNION {{LineTo(s, k) : s \in {s \in EnemySlidersOnLine(P, k) :
                    /\ Cardinality({x \in Between(s, k) : b[x] # None}) = 1
                    /\ \A x \in Between(s, k) :
                            b[x] # None => Unwrap(b[x]).color = us}} :
               k \in kings}

SeqRange(q) == {q[i] : i \in 1..Len(q)}

\* C21: checkers.sliders holds one ray (attacker square up to and including
\* our king) for every enemy bishop, rook or queen whose line to our king has
\* no piece on it, pinners holds one ray for every enemy slider whose line to
\* our king has exactly one friendly piece and no enemy piece on it, and
\* nothing else is in either list.
C21_SliderCheckAndPin ==
    LET state == PositionState(position)
        sliders == state.attacks.checkers.sliders
        pinners == state.attacks.pinners
    IN  /\ SeqRange(sliders) = ExpectedSliderChecks(position)
        /\ Len(sliders) = Cardinality(ExpectedSliderChecks(position))
        /\ SeqRange(pinners) = ExpectedPins(position)
        /\ Len(pinners) = Cardinality(ExpectedPins(position))

\* the pairs <<p, ray>>: the friendly non-king piece on p is the only piece
\* between its king and an enemy slider attacking along ray
PinnedPieces(P) ==
    LET b == RulesBoard(P)
    IN  {<<p, ray>> \in Squares \X ExpectedPins(P) :
            /\ p \in ray
            /\ b[p] # None
            /\ Unwrap(b[p]).color = P.active_color
            /\ Unwrap(b[p]).kind # King}

\* C22: a non-king friendly piece that is the only piece between its own king
\* and an enemy slider attacking along that line gets only moves whose
\* destination lies on that line between the king and the slider, the
\* slider's square included; a pinned knight gets no moves.
C22_PinRestriction ==
    \A pr \in PinnedPieces(position) :
        \A i \in 1..Len(move_list.list) :
            LET m == move_list.list[i]
            IN  m.from = pr[1] =>
                    /\ m.to \in pr[2]
                    /\ m.to \notin get_piece_bb(position.board, position.active_color, King)
                    /\ m.piece_kind # Knight

\* the squares of the enemy pieces that attack the king of the side to move
CheckingPieces(P) ==
    LET b == RulesBoard(P)
        them == Opposite(P.active_color)
    IN  {s \in Squares :
            /\ b[s] # None
            /\ Unwrap(b[s]).color = them
            /\ \E k \in get_piece_bb(P.board, P.active_color, King) :
                    RulesAttacks(b, them, Unwrap(b[s]).kind, s, k)}

\* a king move of two files along its rank
IsCastling(m) ==
    /\ m.piece_kind = King
    /\ Rank(m.from) = Rank(m.to)
    /\ AbsDiff(File(m.from), File(m.to)) = 2

\* C23: when exactly one enemy piece gives check, every non-king move in the
\* list has the checker's square as destination or, if the checker is a
\* bishop, rook or queen, a square strictly between the checker and the king;
\* no castling move is in the list.
C23_SingleCheck ==
    Cardinality(CheckingPieces(position)) = 1 =>
        LET c == CHOOSE s \in CheckingPieces(position) : TRUE
            kind == Unwrap(get(position.board, c)).kind
            kings == get_piece_bb(position.board, position.active_color, King)
            between == IF kind \in {Bishop, Rook, Queen}
                       THEN UNION {Between(c, k) : k \in kings} ELSE {}
        IN  \A i \in 1..Len(move_list.list) :
                LET m == move_list.list[i]
                IN  /\ m.piece_kind # King => m.to \in {c} \cup between
                    /\ ~IsCastling(m)

\* C24: when two or more enemy pieces attack the king of the side to move,
\* every move in the list is a king move that is not a castling move.
C24_DoubleCheck ==
    Cardinality(CheckingPieces(position)) >= 2 =>
        \A i \in 1..Len(move_list.list) :
            LET m == move_list.list[i]
            IN  m.piece_kind = King /\ ~IsCastling(m)

\* the rules board of P with the king of the side to move taken off
WithoutOurKing(P) ==
    LET b == RulesBoard(P)
    IN  [x \in Squares |->
            IF b[x] = Some([color |-> P.active_color, kind |-> King]) THEN None ELSE b[x]]

\* the squares attacked by the pieces of the side not to move, sliding lines
\* continuing through the king of the side to move
ExpectedAttackMask(P) ==
    {t \in Squares : RulesAttacked(WithoutOurKing(P), Opposite(P.active_color), t)}

\* the opponent attack mask is the union of the squares each opponent piece
\* attacks, with the side-to-move's king removed from the occupancy
AttackMaskExact ==
    PositionState(position).attacks.bb = ExpectedAttackMask(position)

\* no listed king move goes from a square attacked by an enemy slider to the
\* next square of the same line on the far side of the slider
NoRetreatAlongCheck ==
    LET b == RulesBoard(position)
        them == Opposite(position.active_color)
    IN  \A i \in 1..Len(move_list.list) :
            LET m == move_list.list[i]
            IN  m.piece_kind = King =>
                    ~\E s \in CheckingPieces(position) :
                        /\ Unwrap(b[s]).kind \in {Bishop, Rook, Queen}
                        /\ RulesAttacks(b, them, Unwrap(b[s]).kind, s, m.from)
                        /\ Rank(m.to) - Rank(m.from) = Sign(Rank(m.from) - Rank(s))
                        /\ File(m.to) - File(m.from) = Sign(File(m.from) - File(s))

\* C25: the opponent attack mask is the union over all opponent pieces of the
\* squares each attacks, sliding rays computed with the side-to-move's king
\* removed, and generate never emits a king move that stays on the line of a
\* checking slider, moving away from it.
C25_AttackMaskThroughKing == AttackMaskExact /\ NoRetreatAlongCheck

\* the steps <<rank, file>> of the four directions of a family, in the order
\* of the returned array
Directions(DIR) ==
    IF DIR = 0 THEN << <<1, 1>>, <<1, -1>>, <<-1, 1>>, <<-1, -1>> >>
    ELSE << <<1, 0>>, <<-1, 0>>, <<0, 1>>, <<0, -1>> >>

\* the squares on the line from sq in direction dir, sq excluded, up to and
\* including the first square in blockers, or up to the board edge
ExpectedRay(sq, dir, blockers) ==
    LET at(n) == At(Rank(sq) + n * dir[1], File(sq) + n * dir[2])
        onBoard == {n \in 1..7 :
                        /\ Rank(sq) + n * dir[1] \in 0..7
                        /\ File(sq) + n * dir[2] \in 0..7}
        blocked == {n \in onBoard : at(n) \in blockers}
        reach == IF blocked = {} THEN onBoard
                 ELSE {n \in onBoard : n <= MinOf(blocked)}
    IN  {at(n) : n \in reach}

\* the blocker sets sliding_attacks is called with on position P
BlockerSets(P) ==
    LET king_bb == get_piece_bb(P.board, P.active_color, King)
        unfriendly == P.board.color_bb[Opposite(P.active_color)]
        minions == P.board.color_bb[P.active_color] \ king_bb
    IN  {get_full_bb(P.board), unfriendly \cup king_bb, unfriendly \cup minions}

\* C26: from every occupied square and from f5, on each occupancy the engine
\* passes, sliding_attacks gives, for each of the four directions of the family,
\* exactly the squares of the line from sq up to and including the first
\* blocker or up to the board edge, and the pseudo bishop and rook moves are
\* the union of the four rays minus the friendly squares; on the starting
\* position the bishop moves from f5 are 0x0088500050880000 and the rook moves
\* from f5 are 0x002020df20200000.
C26_SlidingAttacks ==
    LET state == [position |-> position]
        friendly == position.board.color_bb[position.active_color]
        full == get_full_bb(position.board)
        expected(DIR, sq, blockers) ==
            [d \in 1..4 |-> ExpectedRay(sq, Directions(DIR)[d], blockers)]
    IN  /\ \A DIR \in {0, 1} : \A sq \in full \cup {37} :
            /\ \A blockers \in BlockerSets(position) :
                    sliding_attacks(DIR, sq, blockers) = expected(DIR, sq, blockers)
            /\ sliding_moves(state, DIR, sq)
                    = merge_bb(expected(DIR, sq, full)) \ friendly
        /\ position = starting =>
            /\ pseudo_bishop_moves(state, 37) = {19, 23, 28, 30, 44, 46, 51, 55}
            /\ pseudo_rook_moves(state, 37)
                    = {21, 29, 32, 33, 34, 35, 36, 38, 39, 45, 53}

\* a listed bishop move captures (its ray ended on a blocker) and a rook of
\* the side to move has a listed move
C26_Witness ==
    /\ move_list.verdict = "Moves"
    /\ \E i \in 1..Len(move_list.list) :
            /\ move_list.list[i].piece_kind = Bishop
            /\ move_list.list[i].capture # None
    /\ \E i \in 1..Len(move_list.list) : move_list.list[i].piece_kind = Rook

\* the destinations the pawn of the side to move on sq is specified to get
ExpectedPawnMoves(P, sq) ==
    LET us == P.active_color
        fwd == Forward(us)
        full == get_full_bb(P.board)
        one == sq + fwd
        two == sq + 2 * fwd
        diagonal == {t \in Squares :
                        /\ Rank(t) - Rank(sq) = (IF us = White THEN 1 ELSE -1)
                        /\ Abs(File(t) - File(sq)) = 1}
    IN  (IF one \in Squares /\ one \notin full THEN {one} ELSE {})
        \cup (IF /\ Rank(sq) = (IF us = White THEN 1 ELSE 6)
                 /\ one \notin full
                 /\ two \notin full
              THEN {two} ELSE {})
        \cup {t \in diagonal :
                \/ t \in P.board.color_bb[Opposite(us)]
                \/ P.ep_target = Some(t)}

\* C27: pseudo_pawn_moves for a pawn of the side to move returns exactly the
\* square one step forward if it is empty, the square two steps forward if
\* the pawn is on its start rank and both squares in front are empty, and
\* each diagonal-forward square that holds an opponent piece or equals the
\* en passant target.
C27_PseudoPawnMoves ==
    LET state == [position |-> position]
    IN  \A sq \in get_piece_bb(position.board, position.active_color, Pawn) :
            pseudo_pawn_moves(state, sq) = ExpectedPawnMoves(position, sq)

\* C28: in every position reached from the starting position by generated-
\* then-applied moves, a set castling right has that color's king on its
\* e-file home square and a rook of that color on the corresponding corner.
C28_RightsTrackPlacement ==
    \A c \in Colors : \A side \in {"OO", "OOO"} :
        RulesRight(c, side) \in position.castling =>
            /\ get(position.board, RulesCastle(c, side).king_from)
                    = Some([color |-> c, kind |-> King])
            /\ get(position.board, RulesCastle(c, side).rook_from)
                    = Some([color |-> c, kind |-> Rook])

\* the capture tag the board of P prescribes for a move of a piece of the
\* given kind to square t
ExpectedCapture(P, kind, t) ==
    LET target == get(P.board, t)
    IN  IF target # None /\ Unwrap(target).color = Opposite(P.active_color)
        THEN Some(Regular(Unwrap(target).kind))
        ELSE IF kind = Pawn /\ P.ep_target = Some(t) /\ t \notin get_full_bb(P.board)
        THEN Some(EnPassant)
        ELSE None

\* C29: for every listed move, from holds a piece of the side to move of the
\* move's kind, to holds no piece of the side to move, the capture is
\* Regular(k) exactly when to holds an opponent piece of kind k, which is
\* never a king, EnPassant exactly when the move is a pawn move onto the en
\* passant target with to empty, and None otherwise.
C29_CaptureTagging ==
    \A i \in 1..Len(move_list.list) :
        LET m == move_list.list[i]
            us == position.active_color
        IN  /\ get(position.board, m.from) = Some([color |-> us, kind |-> m.piece_kind])
            /\ m.to \notin position.board.color_bb[us]
            /\ m.capture = ExpectedCapture(position, m.piece_kind, m.to)
            /\ m.capture # Some(Regular(King))

\* the squares whose content the applied move m of the side us may change
FrameOf(us, m) ==
    {m.from, m.to}
        \cup (IF IsCastling(m)
              THEN IF File(m.to) > File(m.from)
                   THEN {At(Rank(m.from), 7), At(Rank(m.from), 5)}
                   ELSE {At(Rank(m.from), 0), At(Rank(m.from), 3)}
              ELSE {})
        \cup (IF m.capture = Some(EnPassant) THEN {m.to - Forward(us)} ELSE {})

====
